---- MODULE Spec2Model ----
(***************************************************************************)
(* media-depot: the asynchronous job pipeline.                             *)
(*                                                                         *)
(*   intake   src/app/routers/downloads.py  download_from_share            *)
(*            src/app/utils/db.py           get_or_create_job_from_share   *)
(*   queue    src/app/utils/queue.py        enqueue_job (RQ, Retry)        *)
(*   worker   src/app/workers.py            process_download_job           *)
(*                                                                         *)
(* The relational store is the only state shared by the web processes and  *)
(* the worker processes.  Every handler is cut at its database round trips *)
(* (query, commit), so that Spec interleaves concurrent requests and       *)
(* concurrent worker executions; SpecSeq runs the same steps one operation *)
(* at a time.                                                              *)
(*                                                                         *)
(*   store    src/app/utils/db.py           get_or_create_creator,         *)
(*                                          get_or_create_post_by_...,     *)
(*                                          get_or_create_media_asset,     *)
(*                                          link_post_media_asset          *)
(*   files    src/app/utils/download.py     download_file                  *)
(*                                                                         *)
(* The pipeline specifications take the Post upsert of the worker as one   *)
(* step.  SpecUpsert, SpecMedia and SpecDownload cut the data layer and    *)
(* the file download at their own round trips, with callers that invoke    *)
(* them directly.                                                          *)
(***************************************************************************)
EXTENDS Naturals, Sequences, FiniteSets

VARIABLES
    jobs,   \* table jobs: row id -> [share_url, status, post_id, error]
    posts,  \* table posts: row id -> [key (platform_post_id), tx, by]
    reqs,   \* POST /download requests: [pc, url, job]
    rq,     \* RQ entries of queue 'downloads': [job_id, retries_left, status]
    exec,   \* one process_download_job execution per RQ entry: [pc, out]
    hist,   \* per Job row: attempts that ended, and whether all were transient
    creators,      \* table creators: row id -> [key (platform_account_id), tx, by]
    platforms,     \* table platforms: row id -> [key (name), tx, by]
    media_assets,  \* table media_assets: row id -> [file_path, checksum]
    post_media,    \* table post_media: row id -> [post_id, media_asset_id]
    files,         \* the media directory: path -> the bytes of the file
    calls,         \* the data-layer call each caller is in
    dl             \* the download_file call under way

\* the state of the data layer and of the media directory
svars == <<creators, platforms, media_assets, post_media, files, calls, dl>>

vars == <<jobs, posts, reqs, rq, exec, hist, creators, platforms, media_assets,
          post_media, files, calls, dl>>

----------------------------------------------------------------------------
(* Bounds and program constants *)

\* number of POST /download requests a behaviour makes
MaxSubmits == 2
\* number of RQ worker processes consuming the queue
NumWorkers == 2
\* settings.JOB_RETRIES
JOB_RETRIES == 3

\* None of a string-valued expression; a NULL row id is 0
NULL == "NULL"

\* JobStatus (enums.py)
JobStatus == {"pending", "processing", "completed", "failed", "canceled"}

\* words a share text is made of: two supported URLs and free text
Words == {"u1", "u2", "text"}
\* the share texts submitted: one or two words
ShareTexts == {<<a>> : a \in Words} \cup {<<a, b>> : a \in Words, b \in {"u1", "text"}}

\* FULL_URL_PATTERNS + SHORT_URL_PATTERNS, in the order they are tried:
\* "u1" is what the full-URL pattern matches, "u2" what the short one does
URL_PATTERNS == <<"u1", "u2">>

\* re.search(pattern, share_text): the first word the pattern matches, or NULL
RECURSIVE re_search(_, _)
re_search(pattern, share_text) ==
    IF share_text = <<>> THEN NULL
    ELSE IF Head(share_text) = pattern THEN Head(share_text)
    ELSE re_search(pattern, Tail(share_text))

\* BaseHandler.extract_url_from_share: the first pattern that matches decides
RECURSIVE extract_from(_, _)
extract_from(patterns, share_text) ==
    IF patterns = <<>> THEN NULL
    ELSE IF re_search(Head(patterns), share_text) # NULL
         THEN re_search(Head(patterns), share_text)
         ELSE extract_from(Tail(patterns), share_text)

extract_url_from_share(share_text) == extract_from(URL_PATTERNS, share_text)

\* PostInfo.platform_post_id of the post a share URL resolves to
platform_post_id(url) == IF url = "u1" THEN "p1" ELSE "p2"

\* get_handler_from_share(share_url) in the worker process: the adapter that
\* supports the URL, or NULL.  The worker's registry has an adapter for "u1"
\* and none for "u2"
get_handler_from_share(url) == IF url = "u1" THEN "handler" ELSE NULL

\* What the platform adapter does during one attempt:
\*   nohandler    get_handler_from_share returns None
\*   loaderr      handler.load / extract_info raises (network)
\*   notfound     extract_info returns None
\*   unsupported  handler.download raises NotImplementedError
\*   dlerr        handler.download raises (network)
\*   ok           handler.download returns
Outcomes == {"nohandler", "loaderr", "notfound", "unsupported", "dlerr", "ok"}

\* the outcomes an attempt on a URL can have
OutcomesFor(url) ==
    IF get_handler_from_share(url) = NULL THEN {"nohandler"}
    ELSE Outcomes \ {"nohandler"}

\* type(e).__name__ of the exception an outcome raises
ExcType(out) ==
    CASE out = "nohandler" -> "ValueError"
      [] out = "unsupported" -> "NotImplementedError"
      [] OTHER -> "HTTPError"

EmptyError == [error |-> FALSE, attempts |-> <<>>]

----------------------------------------------------------------------------
(* The data layer and the media directory: bounds and inputs *)

\* number of processes that call the data layer at the same time
NumCallers == 2
\* number of data-layer calls a behaviour makes
MaxCalls == 2

Callers == 1..NumCallers

\* number of bytes of a response body
BodyLen == 2
\* number of random suffixes a file name can be given
MaxSuffix == 2
\* number of download_file calls a behaviour makes
MaxDownloads == 2
\* retries: int = 8 (download_file)
retries == 8

\* media URLs: "x1" and "x2" serve byte-identical content, "y" another
Urls == {"x1", "x2", "y"}
Content(url) == IF url \in {"x1", "x2"} THEN "X" ELSE "Y"
\* the bytes a server sends for a URL
Body(url) == [i \in 1..BodyLen |-> <<Content(url), i>>]

\* file names callers ask for (sanitize_filename(filename + extension))
Names == {"n1", "n2"}
\* a path of the download directory: the name, and the suffix appended to it
\* (0: none)
Paths == Names \X (0..MaxSuffix)
NoPath == <<NULL, 0>>

NoFile == [exists |-> FALSE, bytes |-> <<>>]
NoFiles == [p \in Paths |-> NoFile]

\* no download_file call is under way
IdleDownload ==
    [pc |-> "idle", url |-> NULL, filename |-> NULL, overwrite |-> FALSE,
     resume_supported |-> FALSE, file_path |-> NoPath, attempt |-> 0,
     resume_from |-> 0, received |-> 0, interrupts |-> 0, pre |-> NoFiles,
     range_ignored |-> FALSE, n |-> 0]

\* PostInfo objects the adapters produce: two posts of one creator, and a
\* post of another
PostInfos ==
    {[platform_post_id |-> "p1", platform_account_id |-> "a1"],
     [platform_post_id |-> "p2", platform_account_id |-> "a1"],
     [platform_post_id |-> "p3", platform_account_id |-> "a2"]}

NoPostInfo == [platform_post_id |-> NULL, platform_account_id |-> NULL]

\* a caller that is in no call
IdleCall ==
    [op |-> "none", pc |-> "idle", post_info |-> NoPostInfo, creator |-> 0,
     post |-> 0, url |-> NULL, path |-> NoPath, asset |-> 0, ret |-> 0,
     position |-> 0, job |-> 0, item |-> 0, commit |-> TRUE, pic |-> "none",
     thumb |-> "none", name |-> NULL, lost |-> FALSE, n |-> 0]

----------------------------------------------------------------------------
(* Initial state: empty tables, empty queue, no request made *)

Init ==
    /\ jobs = <<>>
    /\ posts = <<>>
    /\ reqs = [r \in 1..MaxSubmits |-> [pc |-> "new", url |-> NULL, job |-> 0]]
    /\ rq = <<>>
    /\ exec = <<>>
    /\ hist = <<>>
    /\ creators = <<>>
    /\ media_assets = <<>>
    /\ post_media = <<>>
    /\ files = NoFiles
    /\ calls = [c \in Callers |-> IdleCall]
    /\ dl = IdleDownload
    /\ platforms = <<>>

----------------------------------------------------------------------------
(* Intake: POST /download *)

\* statuses get_or_create_job_from_share matches an existing job on
MatchedStatusesNoProcessing == {"pending", "completed"}
MatchedStatuses == {"pending", "processing", "completed"}

\* db.query(Job).filter(share_url == url, status.in_(...)): the matching rows
MatchingJobs(url) ==
    {j \in 1..Len(jobs) : jobs[j].share_url = url /\ jobs[j].status \in MatchedStatuses}

\* the rows of a URL that are pending or processing
ActiveJobs(url) ==
    {j \in 1..Len(jobs) : jobs[j].share_url = url
                          /\ jobs[j].status \in {"pending", "processing"}}

\* requests arrive in the order of their numbers
Arrived(r) == IF r = 1 THEN TRUE ELSE reqs[r - 1].pc # "new"

\* if url is None: raise HTTPException(status_code=400, ...)
NoSupportedUrlNever(url) == FALSE
NoSupportedUrl(url) == url = NULL

\* download_from_share up to the query: extract the URL (400 when there is
\* none), then .first() of the unordered query: any matching row
SubmitQuery(r, share) ==
    /\ UNCHANGED svars
    /\ reqs[r].pc = "new"
    /\ Arrived(r)
    /\ LET url == extract_url_from_share(share) IN
         IF NoSupportedUrl(url)
         THEN reqs' = [reqs EXCEPT ![r].pc = "rejected"]
         ELSE IF MatchingJobs(url) # {}
         THEN \E j \in MatchingJobs(url) :
                reqs' = [reqs EXCEPT ![r] = [pc |-> "enqueue", url |-> url, job |-> j]]
         ELSE reqs' = [reqs EXCEPT ![r] = [pc |-> "insert", url |-> url, job |-> 0]]
    /\ UNCHANGED <<jobs, posts, rq, exec, hist>>

\* db.add(job); db.commit(): a new pending row
SubmitInsert(r) ==
    /\ UNCHANGED svars
    /\ reqs[r].pc = "insert"
    /\ jobs' = Append(jobs, [share_url |-> reqs[r].url, status |-> "pending",
                             post_id |-> 0, error |-> EmptyError])
    /\ hist' = Append(hist, [ended |-> 0, transient |-> TRUE])
    /\ reqs' = [reqs EXCEPT ![r].pc = "enqueue", ![r].job = Len(jobs) + 1]
    /\ UNCHANGED <<posts, rq, exec>>

\* enqueue_job(job), then the response carries the job
SubmitEnqueue(r) ==
    /\ UNCHANGED svars
    /\ reqs[r].pc = "enqueue"
    /\ rq' = Append(rq, [job_id |-> reqs[r].job, retries_left |-> JOB_RETRIES,
                         status |-> "queued"])
    /\ exec' = Append(exec, [pc |-> "idle", out |-> "none"])
    /\ reqs' = [reqs EXCEPT ![r] = [pc |-> "done", url |-> NULL, job |-> reqs[r].job]]
    /\ UNCHANGED <<jobs, posts, hist>>

----------------------------------------------------------------------------
(* The queue *)

Running == {i \in 1..Len(rq) : rq[i].status = "started"}

\* a free worker dequeues entry i and calls process_download_job
Pickup(i) ==
    /\ UNCHANGED svars
    /\ rq[i].status = "queued"
    /\ Cardinality(Running) < NumWorkers
    /\ rq' = [rq EXCEPT ![i].status = "started"]
    /\ exec' = [exec EXCEPT ![i].pc = "start"]
    /\ UNCHANGED <<jobs, posts, reqs, hist>>

\* the execution of entry i returned normally
Finished(i) ==
    /\ rq' = [rq EXCEPT ![i].status = "finished"]
    /\ exec' = [exec EXCEPT ![i] = [pc |-> "idle", out |-> "none"]]

\* the execution of entry i raised: Retry(max=JOB_RETRIES) schedules it again
\* while retries are left, and then moves it to the failed registry
Raised(i) ==
    /\ rq' = IF rq[i].retries_left > 0
             THEN [rq EXCEPT ![i].status = "queued",
                             ![i].retries_left = rq[i].retries_left - 1]
             ELSE [rq EXCEPT ![i].status = "failed"]
    /\ exec' = [exec EXCEPT ![i] = [pc |-> "idle", out |-> "none"]]

----------------------------------------------------------------------------
(* The worker: process_download_job(job_id), one step per database round trip *)

TheJob(i) == rq[i].job_id

\* the idempotency guard: the statuses on which the worker returns at once
GuardedStatusesCompletedOnly == {"completed"}
GuardedStatuses == {"completed", "failed"}

\* isinstance(e, NotImplementedError): the errors that are never retried
IsPermanentNever(type) == FALSE
IsPermanent(type) == type = "NotImplementedError"

\* len(job.error['attempts']) > settings.JOB_RETRIES
RetriesExhaustedEarly(n) == n >= JOB_RETRIES
RetriesExhaustedLate(n) == n > JOB_RETRIES + 1
RetriesExhaustedNever(n) == FALSE
RetriesExhausted(n) == n > JOB_RETRIES

\* one more attempt of job j has ended; transient: it ended in a network error
Ended(j, transient) ==
    hist' = [hist EXCEPT ![j] = [ended |-> hist[j].ended + 1,
                                 transient |-> hist[j].transient /\ transient]]

\* if job.status == JobStatus.pending
IsPendingNever(status) == FALSE
IsPending(status) == status = "pending"

\* job.post_id = post.id
JobPostIdUnset(post) == 0
JobPostId(post) == post

\* job = db.get(Job, job_id); the guard returns on a terminal job; otherwise
\* the adapter's behaviour in this attempt is fixed
WLoad(i) ==
    /\ UNCHANGED svars
    /\ exec[i].pc = "start"
    /\ IF jobs[TheJob(i)].status \in GuardedStatuses
       THEN Finished(i)
       ELSE /\ \E out \in OutcomesFor(jobs[TheJob(i)].share_url) :
                 exec' = [exec EXCEPT ![i].out = out,
                             ![i].pc = IF IsPending(jobs[TheJob(i)].status)
                                       THEN "mark" ELSE "extract"]
            /\ UNCHANGED rq
    /\ UNCHANGED <<jobs, posts, reqs, hist>>

\* job.status = JobStatus.processing; db.commit()
WMark(i) ==
    /\ UNCHANGED svars
    /\ exec[i].pc = "mark"
    /\ jobs' = [jobs EXCEPT ![TheJob(i)].status = "processing"]
    /\ exec' = [exec EXCEPT ![i].pc = "extract"]
    /\ UNCHANGED <<posts, reqs, rq, hist>>

\* post_info is None: the job fails with the not-found error and the worker
\* returns
NotFoundRaise(i) ==
    /\ exec' = [exec EXCEPT ![i].pc = "except"]
    /\ UNCHANGED <<jobs, rq, hist>>
NotFoundReturn(i) ==
    /\ jobs' = [jobs EXCEPT ![TheJob(i)].status = "failed",
                            ![TheJob(i)].error = [error |-> TRUE, attempts |-> <<>>]]
    /\ Finished(i)
    /\ Ended(TheJob(i), FALSE)

\* get_post_by_platform_info(...).first(): the rows with that natural key
PostRows(key) ==
    {p \in 1..Len(posts) : posts[p].key = key /\ posts[p].tx = "committed"}

\* get_handler_from_share, handler.load, handler.extract_info, then
\* get_or_create_post_by_platform_info and job.post_id = post.id; db.commit()
WExtract(i) ==
    /\ UNCHANGED svars
    /\ exec[i].pc = "extract"
    /\ LET j == TheJob(i)
           key == platform_post_id(jobs[j].share_url) IN
         CASE exec[i].out \in {"nohandler", "loaderr"} ->
                /\ exec' = [exec EXCEPT ![i].pc = "except"]
                /\ UNCHANGED <<jobs, posts, rq, hist>>
           [] exec[i].out = "notfound" ->
                /\ NotFoundReturn(i)
                /\ UNCHANGED posts
           [] OTHER ->
                /\ IF PostRows(key) # {}
                   THEN /\ \E p \in PostRows(key) :
                             jobs' = [jobs EXCEPT ![j].post_id = JobPostId(p)]
                        /\ UNCHANGED posts
                   ELSE /\ posts' = Append(posts, [key |-> key, tx |-> "committed",
                                                   by |-> 0, thumbnail_asset_id |-> 0])
                        /\ jobs' = [jobs EXCEPT ![j].post_id = JobPostId(Len(posts) + 1)]
                /\ exec' = [exec EXCEPT ![i].pc = "download"]
                /\ UNCHANGED <<rq, hist>>
    /\ UNCHANGED reqs

\* handler.download(db, post); job.status = JobStatus.completed; db.commit()
WDownload(i) ==
    /\ UNCHANGED svars
    /\ exec[i].pc = "download"
    /\ IF exec[i].out = "ok"
       THEN /\ jobs' = [jobs EXCEPT ![TheJob(i)].status = "completed"]
            /\ Finished(i)
            /\ Ended(TheJob(i), FALSE)
       ELSE /\ exec' = [exec EXCEPT ![i].pc = "except"]
            /\ UNCHANGED <<jobs, rq, hist>>
    /\ UNCHANGED <<posts, reqs>>

\* the error history after one more record: appended to the attempts the
\* reloaded job has, or a fresh list when it has none
WithAttempt(error, type) ==
    IF error.attempts # <<>>
    THEN [error EXCEPT !.attempts = Append(error.attempts, type)]
    ELSE [error |-> FALSE, attempts |-> <<type>>]

\* except Exception: db.rollback(); job = db.get(Job, job_id); record the
\* error; a permanent error fails the job and returns, any other is raised
WExcept(i) ==
    /\ UNCHANGED svars
    /\ exec[i].pc = "except"
    /\ LET j == TheJob(i)
           type == ExcType(exec[i].out)
           error == WithAttempt(jobs[j].error, type) IN
         IF IsPermanent(type)
         THEN /\ jobs' = [jobs EXCEPT ![j].status = "failed",
                                 ![j].error = [error |-> FALSE, attempts |-> <<type>>]]
              /\ Finished(i)
              /\ Ended(j, FALSE)
         ELSE /\ jobs' = [jobs EXCEPT ![j].error = error,
                                 ![j].status = IF RetriesExhausted(Len(error.attempts))
                                               THEN "failed" ELSE jobs[j].status]
              /\ Raised(i)
              /\ Ended(j, type = "HTTPError")
    /\ UNCHANGED <<posts, reqs>>

----------------------------------------------------------------------------
(* An operator, outside the program, cancels a job that is not finished:   *)
(* the only way a row gets JobStatus.canceled                              *)

CancelJob(j) ==
    /\ UNCHANGED svars
    /\ jobs[j].status \in {"pending", "processing"}
    /\ jobs' = [jobs EXCEPT ![j].status = "canceled"]
    /\ UNCHANGED <<posts, reqs, rq, exec, hist>>

----------------------------------------------------------------------------
(* Specifications *)

\* no request is between its query and its response, no execution is running
Quiet ==
    /\ \A r \in 1..MaxSubmits : reqs[r].pc \notin {"insert", "enqueue"}
    /\ Running = {}

\* the steps that begin an operation: a request arrives, a worker dequeues
Begin ==
    \/ \E r \in 1..MaxSubmits, share \in ShareTexts : SubmitQuery(r, share)
    \/ \E i \in 1..Len(rq) : Pickup(i)

\* the steps that carry on an operation under way
Continue ==
    \/ \E r \in 1..MaxSubmits : SubmitInsert(r)
    \/ \E r \in 1..MaxSubmits : SubmitEnqueue(r)
    \/ \E i \in 1..Len(rq) : WLoad(i)
    \/ \E i \in 1..Len(rq) : WMark(i)
    \/ \E i \in 1..Len(rq) : WExtract(i)
    \/ \E i \in 1..Len(rq) : WDownload(i)
    \/ \E i \in 1..Len(rq) : WExcept(i)

\* concurrent requests and workers: any step of any process
Next == Begin \/ Continue

\* one operation at a time: an operation begins only when none is under way
NextSeq ==
    \/ \E r \in 1..MaxSubmits, share \in ShareTexts : Quiet /\ SubmitQuery(r, share)
    \/ \E i \in 1..Len(rq) : Quiet /\ Pickup(i)
    \/ Continue

\* one operation at a time, and an operator who cancels jobs
NextCancel ==
    \/ NextSeq
    \/ \E j \in 1..Len(jobs) : Quiet /\ CancelJob(j)

Spec == Init /\ [][Next]_vars
SpecSeq == Init /\ [][NextSeq]_vars
SpecCancel == Init /\ [][NextCancel]_vars

\* one operation at a time, fairly scheduled: an operation under way goes on,
\* and a queued entry is picked up once the system is quiet
FairPickup(i) == i \in 1..Len(rq) /\ Quiet /\ Pickup(i)
SpecFair ==
    /\ SpecSeq
    /\ WF_vars(Continue)
    /\ \A i \in 1..MaxSubmits : WF_vars(FairPickup(i))

----------------------------------------------------------------------------
(* Step predicates used by the properties *)

Entries == 1..Len(rq)
Rows == 1..Len(jobs)

\* execution i leaves program point pc in this step
Leaves(i, pc) == exec[i].pc = pc /\ exec'[i].pc # pc

\* execution i returns normally in this step: no retry is scheduled
ReturnsNormally(i) ==
    /\ exec'[i].pc = "idle"
    /\ rq'[i].status = "finished"
    /\ rq'[i].retries_left = rq[i].retries_left

\* the entries of the queue that run job j
EntriesOf(j) == {i \in Entries : rq[i].job_id = j}

\* the queue has stopped invoking the worker for job j
QueueStopped(j) ==
    /\ EntriesOf(j) # {}
    /\ \A i \in EntriesOf(j) : rq[i].status \in {"finished", "failed"}
    /\ \A r \in 1..MaxSubmits : ~(reqs[r].pc = "enqueue" /\ reqs[r].job = j)

----------------------------------------------------------------------------
(* Intake *)

\* C1: with requests handled one at a time, a submit whose URL has a pending
\* or processing job is answered with that job (it goes on to enqueue it, and
\* inserts nothing), and neither its query nor its enqueue changes the jobs
\* table
C1_IdempotentIntake ==
    [][\A r \in 1..MaxSubmits :
        /\ (reqs[r].pc = "new" /\ reqs'[r].pc \notin {"new", "rejected"}
            /\ ActiveJobs(reqs'[r].url) # {})
           => /\ reqs'[r].pc = "enqueue"
              /\ reqs'[r].job \in ActiveJobs(reqs'[r].url)
              /\ jobs' = jobs
        /\ (reqs[r].pc = "enqueue" /\ reqs'[r].pc = "done")
           => jobs' = jobs /\ reqs'[r].job = reqs[r].job]_vars

\* C1 witness: a request was answered with the job an earlier request made,
\* while that job was processing, and the table holds that one row
C1_Witness ==
    /\ Len(jobs) = 1
    /\ jobs[1].status = "processing"
    /\ reqs[1].pc = "done" /\ reqs[1].job = 1
    /\ reqs[2].pc = "done" /\ reqs[2].job = 1

\* C2: at most one pending or processing row per share URL, under any
\* interleaving of submits
C2_OneActiveJobPerUrl ==
    \A j1 \in Rows, j2 \in Rows :
        (/\ j1 # j2
         /\ jobs[j1].share_url = jobs[j2].share_url
         /\ jobs[j1].status \in {"pending", "processing"})
        => jobs[j2].status \notin {"pending", "processing"}

----------------------------------------------------------------------------
(* The idempotency guard *)

\* C3: the worker invoked on a completed or failed job returns at once: the
\* tables are unchanged (status, post_id, error history), no attempt is
\* counted, and the execution never reaches the steps that call the adapter
C3_GuardOnCompletedFailed ==
    [][\A i \in Entries :
        (Leaves(i, "start") /\ jobs[TheJob(i)].status \in {"completed", "failed"})
        => /\ jobs' = jobs
           /\ posts' = posts
           /\ hist' = hist
           /\ ReturnsNormally(i)]_vars

\* C3 witness: two entries ran the same job and both finished without a
\* retry, after one attempt in all: the other execution returned at the guard
C3_Witness ==
    \E i1 \in Entries, i2 \in Entries :
        /\ i1 # i2
        /\ rq[i1].job_id = rq[i2].job_id
        /\ rq[i1].status = "finished" /\ rq[i1].retries_left = JOB_RETRIES
        /\ rq[i2].status = "finished" /\ rq[i2].retries_left = JOB_RETRIES
        /\ jobs[rq[i1].job_id].status \in {"completed", "failed"}
        /\ hist[rq[i1].job_id].ended = 1

\* C4: the worker invoked on a canceled job returns at once, as it does on a
\* completed or failed one
C4_GuardOnCanceled ==
    [][\A i \in Entries :
        (Leaves(i, "start") /\ jobs[TheJob(i)].status = "canceled")
        => /\ jobs' = jobs
           /\ posts' = posts
           /\ hist' = hist
           /\ ReturnsNormally(i)]_vars

----------------------------------------------------------------------------
(* Retries *)

\* the jobs all of whose attempts so far ended in a network error of the adapter
TransientOnly == {j \in Rows : hist[j].transient}

\* C5 as claimed: a job whose attempts all fail with a retryable adapter
\* error is failed exactly when JOB_RETRIES attempts have ended, with that
\* many records
C5_FailedAfterJobRetries ==
    \A j \in TransientOnly :
        /\ jobs[j].status = "failed"
           => hist[j].ended = JOB_RETRIES /\ Len(jobs[j].error.attempts) = JOB_RETRIES
        /\ hist[j].ended >= JOB_RETRIES => jobs[j].status = "failed"

\* C5 amended: such a job is failed exactly when JOB_RETRIES + 1 attempts (the
\* first run and JOB_RETRIES retries) have ended, with JOB_RETRIES + 1 records
C5_FailedAfterJobRetriesPlusOne ==
    \A j \in TransientOnly :
        /\ jobs[j].status = "failed"
           => /\ hist[j].ended = JOB_RETRIES + 1
              /\ Len(jobs[j].error.attempts) = JOB_RETRIES + 1
        /\ hist[j].ended >= JOB_RETRIES + 1 => jobs[j].status = "failed"
        /\ Len(jobs[j].error.attempts) = hist[j].ended

\* C5 witness: a job failed after JOB_RETRIES + 1 transient failures
C5_Witness ==
    \E j \in TransientOnly :
        /\ jobs[j].status = "failed"
        /\ hist[j].ended = JOB_RETRIES + 1
        /\ Len(jobs[j].error.attempts) = JOB_RETRIES + 1

----------------------------------------------------------------------------
(* The status machine *)

\* the edges the worker may move Job.status along
WorkerEdges ==
    {<<"pending", "processing">>, <<"processing", "completed">>,
     <<"processing", "failed">>}

\* C7: the worker changes Job.status only along pending->processing,
\* processing->completed and processing->failed, and a retryable failure
\* that leaves attempts to spare leaves the status at processing
C7_StatusEdges ==
    [][/\ \A j \in Rows :
            (jobs'[j].status # jobs[j].status /\ jobs'[j].status # "canceled")
            => <<jobs[j].status, jobs'[j].status>> \in WorkerEdges
       /\ \A i \in Entries :
            (/\ Leaves(i, "except")
             /\ ~IsPermanent(ExcType(exec[i].out))
             /\ Len(jobs'[TheJob(i)].error.attempts) <= JOB_RETRIES)
            => jobs'[TheJob(i)].status = "processing"]_vars

----------------------------------------------------------------------------
(* Error classes *)

\* C8: extract_info returning None fails the job with the not-found error,
\* creates and links no Post, and returns normally
C8_NotFoundFailsWithoutRetry ==
    [][\A i \in Entries :
        (Leaves(i, "extract") /\ exec[i].out = "notfound")
        => /\ jobs'[TheJob(i)].status = "failed"
           /\ jobs'[TheJob(i)].error.error
           /\ jobs'[TheJob(i)].post_id = jobs[TheJob(i)].post_id
           /\ posts' = posts
           /\ ReturnsNormally(i)]_vars

\* C8 witness: a job failed with the not-found error on its first run, its
\* entry finished with every retry left, and no Post row exists
C8_Witness ==
    \E i \in Entries :
        /\ jobs[TheJob(i)].status = "failed"
        /\ jobs[TheJob(i)].error.error
        /\ jobs[TheJob(i)].post_id = 0
        /\ posts = <<>>
        /\ rq[i].status = "finished" /\ rq[i].retries_left = JOB_RETRIES

\* C9: an attempt that raises NotImplementedError fails the job in that
\* attempt and returns normally, whatever retries are left
C9_PermanentFailsWithoutRetry ==
    [][\A i \in Entries :
        (Leaves(i, "except") /\ ExcType(exec[i].out) = "NotImplementedError")
        => /\ jobs'[TheJob(i)].status = "failed"
           /\ ReturnsNormally(i)]_vars

\* C9 witness: a job failed with a NotImplementedError record and its entry
\* finished with retries left
C9_Witness ==
    \E i \in Entries :
        /\ jobs[TheJob(i)].status = "failed"
        /\ jobs[TheJob(i)].error.attempts = <<"NotImplementedError">>
        /\ rq[i].status = "finished" /\ rq[i].retries_left > 0

\* C10: an attempt that finds no adapter for the share URL fails the job in
\* that attempt and returns normally: no retry
C10_NoHandlerFailsWithoutRetry ==
    [][\A i \in Entries :
        (Leaves(i, "except") /\ exec[i].out = "nohandler")
        => /\ jobs'[TheJob(i)].status = "failed"
           /\ ReturnsNormally(i)]_vars

----------------------------------------------------------------------------
(* The store: PostgreSQL transactions at READ COMMITTED.  A row a session  *)
(* inserted is pending until the session commits, and only that session    *)
(* sees it.                                                                *)

\* the rows of a table a session sees
Visible(rows, c) ==
    {i \in 1..Len(rows) :
        rows[i].tx = "committed" \/ (rows[i].tx = "pending" /\ rows[i].by = c)}

\* filter_by(<natural key>): the rows the query of session c matches
Matching(rows, c, key) == {i \in Visible(rows, c) : rows[i].key = key}

\* an INSERT on a unique key waits while another session has a pending row
\* with that key
Blocked(rows, c, key) ==
    \E i \in 1..Len(rows) :
        rows[i].key = key /\ rows[i].tx = "pending" /\ rows[i].by # c

\* db.commit() / db.rollback() of session c on one table
Committed(rows, c) ==
    [i \in 1..Len(rows) |->
        IF rows[i].tx = "pending" /\ rows[i].by = c
        THEN [rows[i] EXCEPT !.tx = "committed"] ELSE rows[i]]
RolledBack(rows, c) ==
    [i \in 1..Len(rows) |->
        IF rows[i].tx = "pending" /\ rows[i].by = c
        THEN [rows[i] EXCEPT !.tx = "aborted"] ELSE rows[i]]

\* UniqueConstraint('platform_id', 'platform_account_id') of Creator and
\* UniqueConstraint('platform_id', 'platform_post_id') of Post
uq_platform_account_id_dropped == FALSE
uq_platform_account_id == TRUE
uq_platform_post_dropped == FALSE
uq_platform_post == TRUE

\* the INSERT violates the unique key: a row session c sees has the key
Conflict(unique, rows, c, key) == unique /\ Matching(rows, c, key) # {}

\* db.commit(): the session's pending rows of every table
Commit(c) ==
    /\ creators' = Committed(creators, c)
    /\ posts' = Committed(posts, c)

\* db.rollback()
Rollback(c) ==
    /\ creators' = RolledBack(creators, c)
    /\ posts' = RolledBack(posts, c)

----------------------------------------------------------------------------
(* The error history *)

\* the records an error column holds: the attempts, and the not-found record
Records(error) == Len(error.attempts) + (IF error.error THEN 1 ELSE 0)

\* sequence s is an initial part of sequence t
IsPrefix(s, t) == Len(s) <= Len(t) /\ SubSeq(t, 1, Len(s)) = s

\* C11: the error history only grows: no step removes or replaces a record an
\* earlier attempt wrote, and every attempt that ends in a failure (retryable,
\* permanent or not-found) adds exactly one record
C11_ErrorHistoryAppendOnly ==
    [][\A j \in Rows :
        /\ IsPrefix(jobs[j].error.attempts, jobs'[j].error.attempts)
        /\ jobs[j].error.error => jobs'[j].error.error
        /\ (hist'[j].ended = hist[j].ended + 1 /\ jobs'[j].status # "completed")
           => Records(jobs'[j].error) = Records(jobs[j].error) + 1]_vars

----------------------------------------------------------------------------
(* get_or_create_creator and get_or_create_post_by_platform_info, one step *)
(* per database round trip                                                 *)

\* what the upsert steps leave alone
UpsertFrame ==
    UNCHANGED <<jobs, reqs, rq, exec, hist, platforms, media_assets, post_media, files, dl>>

\* the calls made so far by callers 1..c
RECURSIVE CallsMade(_)
CallsMade(c) == IF c = 0 THEN 0 ELSE calls[c].n + CallsMade(c - 1)

\* caller c may start a call
MayCall(c) ==
    /\ calls[c].pc \in {"idle", "done", "raised"}
    /\ CallsMade(NumCallers) < MaxCalls

\* a worker calls get_or_create_creator(db, platform, post_info)
CallCreator(c, post_info) ==
    /\ MayCall(c)
    /\ calls' = [calls EXCEPT ![c] = [IdleCall EXCEPT !.op = "creator", !.pc = "cquery",
                                         !.post_info = post_info, !.n = calls[c].n + 1]]
    /\ UNCHANGED <<creators, posts>>
    /\ UpsertFrame

\* a worker calls get_or_create_post_by_platform_info(db, platform, post_info)
CallPost(c, post_info) ==
    /\ MayCall(c)
    /\ calls' = [calls EXCEPT ![c] = [IdleCall EXCEPT !.op = "post", !.pc = "pquery",
                                         !.post_info = post_info, !.n = calls[c].n + 1]]
    /\ UNCHANGED <<creators, posts>>
    /\ UpsertFrame

\* get_or_create_creator returns row i: to the worker, or into create_post
ReturnCreator(c, i) ==
    calls' = [calls EXCEPT ![c].creator = i, ![c].pic = "none",
                           ![c].ret = IF calls[c].op = "creator" THEN i ELSE 0,
                           ![c].pc = IF calls[c].op = "creator" THEN "done" ELSE "pflush"]

\* creator = db.query(Creator).filter_by(...).first(); if creator: return
CreatorQuery(c) ==
    /\ calls[c].pc = "cquery"
    /\ LET found == Matching(creators, c, calls[c].post_info.platform_account_id) IN
         IF found # {}
         THEN \E i \in found : ReturnCreator(c, i)
         ELSE calls' = [calls EXCEPT ![c].pc = "cflush"]
    /\ UNCHANGED <<creators, posts>>
    /\ UpsertFrame

\* db.add(creator); db.flush(): the INSERT, or IntegrityError
CreatorFlush(c) ==
    /\ calls[c].pc = "cflush"
    /\ LET key == calls[c].post_info.platform_account_id IN
         /\ ~(uq_platform_account_id /\ Blocked(creators, c, key))
         /\ IF Conflict(uq_platform_account_id, creators, c, key)
            THEN /\ calls' = [calls EXCEPT ![c].pc = "crequery", ![c].lost = TRUE]
                 /\ UNCHANGED creators
            ELSE /\ creators' = Append(creators, [key |-> key, tx |-> "pending", by |-> c,
                                                  profile_pic_asset_id |-> 0])
                 /\ calls' = [calls EXCEPT ![c].pc = "cpic", ![c].creator = Len(creators) + 1]
    /\ UNCHANGED posts
    /\ UpsertFrame

\* except IntegrityError: db.rollback(); query again; raise when there is no
\* row
CreatorRequery(c) ==
    /\ calls[c].pc = "crequery"
    /\ Rollback(c)
    /\ LET found == Matching(RolledBack(creators, c), c,
                             calls[c].post_info.platform_account_id) IN
         IF found # {}
         THEN \E i \in found : calls' = [calls EXCEPT ![c].pc = "cpic", ![c].creator = i]
         ELSE calls' = [calls EXCEPT ![c].pc = "raised"]
    /\ UpsertFrame

\* how the attachment step ends: post_info has no URL for it ("none"),
\* download_media_asset_from_url raises and 'except Exception: pass' drops
\* the error ("raised"), or it returns a MediaAsset row ("ok")
Attachments == {"none", "raised", "ok"}

\* creator.profile_pic_asset_id = profile_pic_asset.id /
\* post.thumbnail_asset_id = thumbnail_asset.id: the link the call sets, 0
\* when it sets none
AttachmentLinkAlways(out) == 1
AttachmentLink(out) == IF out = "ok" THEN 1 ELSE 0

\* a row after the flush of the link the call has set on it
WithLink(row, field, out) ==
    IF AttachmentLink(out) # 0 THEN [row EXCEPT ![field] = AttachmentLink(out)] ELSE row

\* the profile picture, downloaded with the flushed Creator row in the open
\* transaction: download_media_asset_from_url commits the session when it
\* inserts a MediaAsset row and not when it finds one; when there is no
\* picture, or the download raises, nothing happens
CreatorPic(c) ==
    /\ calls[c].pc = "cpic"
    /\ \E out \in Attachments :
         /\ calls' = [calls EXCEPT ![c].pc = "ccommit", ![c].pic = out]
         /\ \/ out = "ok" /\ Commit(c)
            \/ UNCHANGED <<creators, posts>>
    /\ UpsertFrame

\* if commit: db.commit(); return creator.  create_post calls
\* get_or_create_creator with the default commit=True
CreatorCommit(c) ==
    /\ calls[c].pc = "ccommit"
    /\ IF calls[c].commit \/ calls[c].op = "post"
       THEN /\ creators' = [Committed(creators, c) EXCEPT ![calls[c].creator] =
                               WithLink(@, "profile_pic_asset_id", calls[c].pic)]
            /\ posts' = Committed(posts, c)
       ELSE UNCHANGED <<creators, posts>>
    /\ ReturnCreator(c, calls[c].creator)
    /\ UpsertFrame

\* post = get_post_by_platform_info(...); if not post: create_post(...), which
\* begins with get_or_create_creator
PostQuery(c) ==
    /\ calls[c].pc = "pquery"
    /\ LET found == Matching(posts, c, calls[c].post_info.platform_post_id) IN
         IF found # {}
         THEN \E i \in found :
                calls' = [calls EXCEPT ![c].pc = "done", ![c].post = i, ![c].ret = i]
         ELSE calls' = [calls EXCEPT ![c].pc = "cquery"]
    /\ UNCHANGED <<creators, posts>>
    /\ UpsertFrame

\* db.add(post); db.flush(): the INSERT, or IntegrityError
PostFlush(c) ==
    /\ calls[c].pc = "pflush"
    /\ LET key == calls[c].post_info.platform_post_id IN
         /\ ~(uq_platform_post /\ Blocked(posts, c, key))
         /\ IF Conflict(uq_platform_post, posts, c, key)
            THEN /\ calls' = [calls EXCEPT ![c].pc = "prequery", ![c].lost = TRUE]
                 /\ UNCHANGED posts
            ELSE /\ posts' = Append(posts, [key |-> key, tx |-> "pending", by |-> c,
                                            thumbnail_asset_id |-> 0])
                 /\ calls' = [calls EXCEPT ![c].pc = "pthumb", ![c].post = Len(posts) + 1]
    /\ UNCHANGED creators
    /\ UpsertFrame

\* except IntegrityError: db.rollback(); get_post_by_platform_info again
PostRequery(c) ==
    /\ calls[c].pc = "prequery"
    /\ Rollback(c)
    /\ LET found == Matching(RolledBack(posts, c), c,
                             calls[c].post_info.platform_post_id) IN
         IF found # {}
         THEN \E i \in found : calls' = [calls EXCEPT ![c].pc = "pthumb", ![c].post = i]
         ELSE calls' = [calls EXCEPT ![c].pc = "raised"]
    /\ UpsertFrame

\* the thumbnail: as the profile picture
PostThumb(c) ==
    /\ calls[c].pc = "pthumb"
    /\ \E out \in Attachments :
         /\ calls' = [calls EXCEPT ![c].pc = "pcommit", ![c].thumb = out]
         /\ \/ out = "ok" /\ Commit(c)
            \/ UNCHANGED <<creators, posts>>
    /\ UpsertFrame

\* if commit: db.commit(); return post
PostCommit(c) ==
    /\ calls[c].pc = "pcommit"
    /\ IF calls[c].commit
       THEN /\ posts' = [Committed(posts, c) EXCEPT ![calls[c].post] =
                            WithLink(@, "thumbnail_asset_id", calls[c].thumb)]
            /\ creators' = Committed(creators, c)
       ELSE UNCHANGED <<creators, posts>>
    /\ calls' = [calls EXCEPT ![c].pc = "done", ![c].ret = calls[c].post,
                               ![c].thumb = "none"]
    /\ UpsertFrame

\* concurrent workers in the two upserts
NextUpsert ==
    \/ \E c \in Callers, post_info \in PostInfos : CallCreator(c, post_info)
    \/ \E c \in Callers, post_info \in PostInfos : CallPost(c, post_info)
    \/ \E c \in Callers : CreatorQuery(c)
    \/ \E c \in Callers : CreatorFlush(c)
    \/ \E c \in Callers : CreatorRequery(c)
    \/ \E c \in Callers : CreatorPic(c)
    \/ \E c \in Callers : CreatorCommit(c)
    \/ \E c \in Callers : PostQuery(c)
    \/ \E c \in Callers : PostFlush(c)
    \/ \E c \in Callers : PostRequery(c)
    \/ \E c \in Callers : PostThumb(c)
    \/ \E c \in Callers : PostCommit(c)

SpecUpsert == Init /\ [][NextUpsert]_vars

\* the rows of a table that were not rolled back
Live(rows) == {i \in 1..Len(rows) : rows[i].tx # "aborted"}

\* at most one row per natural key
OneRowPerKey(rows) ==
    \A i \in Live(rows), k \in Live(rows) : rows[i].key = rows[k].key => i = k

\* C12: workers that call get_or_create_creator concurrently with the same
\* natural key leave exactly one Creator row with it, each of them returns
\* that row, and none raises
C12_ConcurrentCreatorUpsert ==
    /\ OneRowPerKey(creators)
    /\ \A c \in Callers :
        /\ ~(calls[c].pc = "raised" /\ calls[c].creator = 0)
        /\ calls[c].creator # 0
           => /\ calls[c].creator \in Live(creators)
              /\ creators[calls[c].creator].key = calls[c].post_info.platform_account_id
        /\ (calls[c].op = "creator" /\ calls[c].pc = "done")
           => /\ calls[c].ret = calls[c].creator
              /\ creators[calls[c].ret].tx = "committed"

\* C12 witness: two workers called get_or_create_creator with the same key,
\* one had its INSERT refused, and both returned the one row
C12_Witness ==
    \E c1 \in Callers, c2 \in Callers :
        /\ c1 # c2
        /\ calls[c1].op = "creator" /\ calls[c1].pc = "done" /\ ~calls[c1].lost
        /\ calls[c2].op = "creator" /\ calls[c2].pc = "done" /\ calls[c2].lost
        /\ calls[c1].post_info = calls[c2].post_info
        /\ calls[c1].ret = calls[c2].ret
        /\ calls[c1].n = 1 /\ calls[c2].n = 1
        /\ Len(creators) = 1

\* C13: workers that call get_or_create_post_by_platform_info concurrently
\* with the same natural key leave at most one Post row with it, each of them
\* returns that row, and the IntegrityError of the losing INSERT is not raised
C13_ConcurrentPostUpsert ==
    /\ OneRowPerKey(posts)
    /\ \A c \in Callers :
        /\ calls[c].pc # "raised"
        /\ calls[c].post # 0
           => /\ calls[c].post \in Live(posts)
              /\ posts[calls[c].post].key = calls[c].post_info.platform_post_id
        /\ (calls[c].op = "post" /\ calls[c].pc = "done")
           => /\ calls[c].ret = calls[c].post
              /\ posts[calls[c].ret].tx = "committed"

\* C13 witness: two workers called the Post upsert with the same key, one had
\* its INSERT refused, and both returned the one row
C13_Witness ==
    \E c1 \in Callers, c2 \in Callers :
        /\ c1 # c2
        /\ calls[c1].op = "post" /\ calls[c1].pc = "done" /\ ~calls[c1].lost
        /\ calls[c2].op = "post" /\ calls[c2].pc = "done"
        /\ posts[calls[c2].ret].by = c1
        /\ calls[c2].creator # 0
        /\ calls[c1].post_info = calls[c2].post_info
        /\ calls[c1].ret = calls[c2].ret
        /\ Len(posts) = 1

----------------------------------------------------------------------------
(* Media: download_media_asset_from_url and link_post_media_asset, as the  *)
(* adapters call them for one media item of a post                         *)

\* hash_file(path): SHA-256 of the bytes, which tells contents apart
hash_file(bytes) == <<"sha256", bytes>>

\* the paths download_file may write a file named name to: the name itself
\* when no such file exists, else the name with a random suffix that is free
UniquePathsNoSuffix(fs, name) == {<<name, 0>>}
UniquePaths(fs, name) ==
    IF ~fs[<<name, 0>>].exists THEN {<<name, 0>>}
    ELSE {path \in Paths : path[1] = name /\ path[2] > 0 /\ ~fs[path].exists}

\* filter_by(checksum_sha256=file_checksum, file_size=file_size)
SameContentNever(row, checksum, file_size) == FALSE
SameContent(row, checksum, file_size) ==
    row.checksum_sha256 = checksum /\ row.file_size = file_size

\* UniqueConstraint('post_id', 'media_asset_id') of PostMedia
uq_post_media_asset == TRUE

\* what the media steps leave alone
MediaFrame == UNCHANGED <<jobs, posts, reqs, rq, exec, hist, creators, platforms, dl>>

\* Init, with the Post rows of two posts already upserted
InitMedia ==
    /\ jobs = <<>>
    /\ posts = <<[key |-> "p1", tx |-> "committed", by |-> 0,
                  thumbnail_asset_id |-> 0],
                 [key |-> "p2", tx |-> "committed", by |-> 0,
                  thumbnail_asset_id |-> 0]>>
    /\ reqs = [r \in 1..MaxSubmits |-> [pc |-> "new", url |-> NULL, job |-> 0]]
    /\ rq = <<>>
    /\ exec = <<>>
    /\ hist = <<>>
    /\ creators = <<>>
    /\ media_assets = <<>>
    /\ post_media = <<>>
    /\ files = NoFiles
    /\ calls = [c \in Callers |-> IdleCall]
    /\ dl = IdleDownload
    /\ platforms = <<>>

\* an adapter downloads the media item at url of Post row post under the
\* file name name
CallMedia(c, post, url, name) ==
    /\ MayCall(c)
    /\ calls' = [calls EXCEPT ![c] = [IdleCall EXCEPT !.op = "media", !.pc = "mdownload",
                                         !.post = post, !.url = url,
                                         !.path = <<name, 0>>, !.n = calls[c].n + 1]]
    /\ UNCHANGED <<media_assets, post_media, files>>
    /\ MediaFrame

\* filepath = download_file(url, download_dir, filename): the call raises and
\* leaves no file, or returns a path that did not exist and now holds the
\* body
MediaDownload(c) ==
    /\ calls[c].pc = "mdownload"
    /\ \/ /\ calls' = [calls EXCEPT ![c].pc = "raised"]
          /\ UNCHANGED files
       \/ \E path \in UniquePaths(files, calls[c].path[1]) :
            /\ files' = [files EXCEPT ![path] = [exists |-> TRUE,
                                                 bytes |-> Body(calls[c].url)]]
            /\ calls' = [calls EXCEPT ![c].pc = "aquery", ![c].path = path]
    /\ UNCHANGED <<media_assets, post_media>>
    /\ MediaFrame

\* filter_by(file_path=relative_path)
ByPathNever(rows, path) == {}
ByPath(rows, path) == {i \in 1..Len(rows) : rows[i].file_path = path}

\* filter_by(checksum_sha256=file_checksum, file_size=file_size)
ByContent(rows, bytes) ==
    {i \in 1..Len(rows) : SameContent(rows[i], hash_file(bytes), Len(bytes))}

\* db.query(...).first() or db.query(...).first()
FoundAsset(rows, path, bytes) ==
    IF ByPath(rows, path) # {} THEN ByPath(rows, path) ELSE ByContent(rows, bytes)

\* where the MediaAsset row is returned to: the caller of
\* get_or_create_media_asset, or download_media_asset_from_url and then the
\* link
AfterAsset(c) == IF calls[c].op = "asset" THEN "done" ELSE "lquery"

\* get_or_create_media_asset: FileNotFoundError when the file does not
\* exist; the row with this file_path, or else a row with this checksum and
\* size; if media_asset: return media_asset
AssetQuery(c) ==
    /\ calls[c].pc = "aquery"
    /\ IF ~files[calls[c].path].exists
       THEN calls' = [calls EXCEPT ![c].pc = "raised"]
       ELSE LET found == FoundAsset(media_assets, calls[c].path,
                                    files[calls[c].path].bytes) IN
              IF found # {}
              THEN \E i \in found :
                     calls' = [calls EXCEPT ![c].pc = AfterAsset(c), ![c].asset = i,
                                            ![c].ret = IF calls[c].op = "asset"
                                                       THEN i ELSE 0]
              ELSE calls' = [calls EXCEPT ![c].pc = "ainsert"]
    /\ UNCHANGED <<media_assets, post_media, files>>
    /\ MediaFrame

\* db.add(media_asset); db.commit(): no constraint refuses the row
AssetInsert(c) ==
    /\ calls[c].pc = "ainsert"
    /\ LET bytes == files[calls[c].path].bytes IN
         media_assets' = Append(media_assets,
                                [file_path |-> calls[c].path,
                                 checksum_sha256 |-> hash_file(bytes),
                                 file_size |-> Len(bytes)])
    /\ calls' = [calls EXCEPT ![c].pc = AfterAsset(c), ![c].asset = Len(media_assets) + 1,
                               ![c].ret = IF calls[c].op = "asset"
                                          THEN Len(media_assets) + 1 ELSE 0]
    /\ UNCHANGED <<post_media, files>>
    /\ MediaFrame

\* the PostMedia rows of a (post, media asset) pair
LinkRowsNone(post, asset) == {}
LinkRows(post, asset) ==
    {i \in 1..Len(post_media) :
        post_media[i].post_id = post /\ post_media[i].media_asset_id = asset}

\* where the PostMedia row is returned to: the caller, or the loop of
\* handler.download over the media of the post
AfterLink(c) == IF calls[c].op = "handler" THEN "hnext" ELSE "done"

\* link_post_media_asset: the duplicate check; if post_media: return
LinkQuery(c) ==
    /\ calls[c].pc = "lquery"
    /\ LET found == LinkRows(calls[c].post, calls[c].asset) IN
         IF found # {}
         THEN \E i \in found : calls' = [calls EXCEPT ![c].pc = AfterLink(c), ![c].ret = i]
         ELSE calls' = [calls EXCEPT ![c].pc = "linsert"]
    /\ UNCHANGED <<media_assets, post_media, files>>
    /\ MediaFrame

\* db.add(post_media); db.commit(): the INSERT, or an IntegrityError that
\* nothing catches
LinkInsert(c) ==
    /\ calls[c].pc = "linsert"
    /\ IF uq_post_media_asset /\ LinkRows(calls[c].post, calls[c].asset) # {}
       THEN /\ calls' = [calls EXCEPT ![c].pc = "raised", ![c].lost = TRUE]
            /\ UNCHANGED post_media
       ELSE /\ post_media' = Append(post_media, [post_id |-> calls[c].post,
                                                 media_asset_id |-> calls[c].asset,
                                                 position |-> calls[c].position])
            /\ calls' = [calls EXCEPT ![c].pc = AfterLink(c),
                                       ![c].ret = Len(post_media) + 1]
    /\ UNCHANGED <<media_assets, files>>
    /\ MediaFrame

\* no caller is inside a call
NoCall == \A c \in Callers : calls[c].pc \in {"idle", "done", "raised"}

\* the steps of a media call under way
MediaSteps ==
    \/ \E c \in Callers : MediaDownload(c)
    \/ \E c \in Callers : AssetQuery(c)
    \/ \E c \in Callers : AssetInsert(c)
    \/ \E c \in Callers : LinkQuery(c)
    \/ \E c \in Callers : LinkInsert(c)

\* concurrent workers downloading media
NextMedia ==
    \/ \E c \in Callers, post \in 1..Len(posts), url \in Urls, name \in Names :
          CallMedia(c, post, url, name)
    \/ MediaSteps

\* media downloaded one item after the other
NextMediaSeq ==
    \/ \E c \in Callers, post \in 1..Len(posts), url \in Urls, name \in Names :
          NoCall /\ CallMedia(c, post, url, name)
    \/ MediaSteps

SpecMedia == InitMedia /\ [][NextMedia]_vars
SpecMediaSeq == InitMedia /\ [][NextMediaSeq]_vars

\* the media calls that returned
MediaDone == {c \in Callers : calls[c].op = "media" /\ calls[c].pc = "done"}

\* C14: workers that link the same (post, media asset) concurrently leave
\* exactly one PostMedia row for the pair, each of them returns that row, and
\* the IntegrityError of the losing INSERT is not raised to the caller
C14_ConcurrentLink ==
    /\ \A i \in 1..Len(post_media), k \in 1..Len(post_media) :
          (/\ post_media[i].post_id = post_media[k].post_id
           /\ post_media[i].media_asset_id = post_media[k].media_asset_id) => i = k
    /\ \A c \in Callers : ~(calls[c].pc = "raised" /\ calls[c].lost)
    /\ \A c \in MediaDone : calls[c].ret \in LinkRows(calls[c].post, calls[c].asset)

\* C15: media downloaded one item after the other: there is one MediaAsset
\* row per content, every call returns the PostMedia row that links its post
\* to the asset row of its content, and so two posts with byte-identical
\* media share one MediaAsset row through two PostMedia rows
C15_SequentialDedup ==
    /\ \A i \in 1..Len(media_assets), k \in 1..Len(media_assets) :
          media_assets[i].checksum_sha256 = media_assets[k].checksum_sha256 => i = k
    /\ \A c \in MediaDone :
          /\ media_assets[calls[c].asset].checksum_sha256 = hash_file(Body(calls[c].url))
          /\ calls[c].ret \in LinkRows(calls[c].post, calls[c].asset)
    /\ \A c1 \in MediaDone, c2 \in MediaDone :
          (/\ calls[c1].post # calls[c2].post
           /\ Body(calls[c1].url) = Body(calls[c2].url))
          => /\ calls[c1].asset = calls[c2].asset
             /\ calls[c1].ret # calls[c2].ret

\* C15 witness: two posts were downloaded from two URLs with the same bytes:
\* one MediaAsset row, two PostMedia rows
C15_Witness ==
    \E c1 \in MediaDone, c2 \in MediaDone :
        /\ calls[c1].post # calls[c2].post
        /\ calls[c1].url # calls[c2].url
        /\ Body(calls[c1].url) = Body(calls[c2].url)
        /\ calls[c1].asset = calls[c2].asset
        /\ Len(media_assets) = 1
        /\ Len(post_media) = 2

\* C16: in every reachable state no two MediaAsset rows have the same
\* (checksum_sha256, file_size), and no two have the same file_path
C16_AssetKeysUnique ==
    \A i \in 1..Len(media_assets), k \in 1..Len(media_assets) :
        (\/ SameContent(media_assets[i], media_assets[k].checksum_sha256,
                        media_assets[k].file_size)
         \/ media_assets[i].file_path = media_assets[k].file_path) => i = k

\* C17: once the calls have returned, the media directory holds at most one
\* file per content
C17_OneFilePerContent ==
    NoCall =>
        \A p1 \in Paths, p2 \in Paths :
            (/\ files[p1].exists /\ files[p2].exists
             /\ files[p1].bytes = files[p2].bytes) => p1 = p2

----------------------------------------------------------------------------
(* download_file(url, download_dir, filename, overwrite, retries)          *)

\* what the download steps leave alone
DownloadFrame ==
    UNCHANGED <<jobs, posts, reqs, rq, exec, hist, creators, platforms, media_assets,
                post_media, calls>>

\* max_attempts = retries if resume_supported else 1
max_attempts_one_more(resume_supported) == retries + 1
max_attempts_always_retries(resume_supported) == retries
max_attempts(resume_supported) == IF resume_supported THEN retries ELSE 1

\* the status a server with byte-range support answers 'Range: bytes=N-'
\* with: 206 and the rest of the body, or 416 when N is not inside the body
RangeStatus(resume_from) == IF resume_from < BodyLen THEN 206 ELSE 416

\* response.status_code of the GET with a Range header: a server may
\* advertise byte ranges and still answer with 200 and the whole body
StatusOf(resume_from) == IF dl.range_ignored THEN 200 ELSE RangeStatus(resume_from)

\* the state of a call that has just begun
Called(url, name, overwrite, resume_supported) ==
    [IdleDownload EXCEPT !.pc = "probe", !.url = url, !.filename = name,
                         !.overwrite = overwrite,
                         !.resume_supported = resume_supported,
                         !.pre = files, !.n = dl.n + 1]

\* a call of download_file: the server of url advertises byte ranges or not
DCall(url, name, overwrite, resume_supported) ==
    /\ dl.pc \in {"idle", "returned", "raised"}
    /\ dl.n < MaxDownloads
    /\ dl' = Called(url, name, overwrite, resume_supported)
    /\ UNCHANGED files
    /\ DownloadFrame

\* the HEAD and GET requests that find resume support, file name and
\* extension: the GET's raise_for_status may raise
DProbe ==
    /\ dl.pc = "probe"
    /\ \/ dl' = [dl EXCEPT !.pc = "raised"]
       \/ dl' = [dl EXCEPT !.pc = "name"]
    /\ UNCHANGED files
    /\ DownloadFrame

\* the final file path: an existing file is unlinked when overwrite is set,
\* and else the name gets a random suffix until no such file exists
DName ==
    /\ dl.pc = "name"
    /\ IF files[<<dl.filename, 0>>].exists /\ dl.overwrite
       THEN /\ files' = [files EXCEPT ![<<dl.filename, 0>>] = NoFile]
            /\ dl' = [dl EXCEPT !.pc = "attempt", !.file_path = <<dl.filename, 0>>]
       ELSE /\ \E path \in UniquePaths(files, dl.filename) :
                 dl' = [dl EXCEPT !.pc = "attempt", !.file_path = path]
            /\ UNCHANGED files
    /\ DownloadFrame

\* resume_from: the size of the file when the download may resume
ResumeFrom ==
    IF /\ dl.resume_supported
       /\ files[dl.file_path].exists
       /\ ~dl.overwrite
    THEN Len(files[dl.file_path].bytes) ELSE 0

\* the attempt failed: except ...: last_exception = e; continue
AttemptFailed(interrupted) ==
    dl' = [dl EXCEPT !.pc = "attempt", !.attempt = dl.attempt + 1,
                     !.interrupts = dl.interrupts + (IF interrupted THEN 1 ELSE 0)]

\* one pass of 'for attempt in range(max_attempts)' up to the open of the
\* file: the request fails; or its status is an error (raise_for_status); or
\* the file is opened 'ab' on 206 and 'wb' on a download from the start
DAttempt ==
    /\ dl.pc = "attempt"
    /\ dl.attempt < max_attempts(dl.resume_supported)
    /\ \/ /\ AttemptFailed(TRUE)
          /\ UNCHANGED files
       \/ /\ ResumeFrom > 0
          /\ StatusOf(ResumeFrom) \notin {200, 206}
          /\ AttemptFailed(FALSE)
          /\ UNCHANGED files
       \/ /\ ResumeFrom > 0
          /\ StatusOf(ResumeFrom) = 206
          /\ dl' = [dl EXCEPT !.pc = "body", !.resume_from = ResumeFrom,
                              !.received = ResumeFrom]
          /\ UNCHANGED files
       \/ /\ ResumeFrom = 0
          /\ files' = [files EXCEPT ![dl.file_path] = [exists |-> TRUE, bytes |-> <<>>]]
          /\ dl' = [dl EXCEPT !.pc = "body", !.resume_from = 0, !.received = 0]
    /\ DownloadFrame

\* for chunk in response.iter_bytes(): f.write(chunk), a byte at a time
DWrite ==
    /\ dl.pc = "body"
    /\ dl.received < BodyLen
    /\ files' = [files EXCEPT ![dl.file_path].bytes =
                    Append(files[dl.file_path].bytes, Body(dl.url)[dl.received + 1])]
    /\ dl' = [dl EXCEPT !.received = dl.received + 1]
    /\ DownloadFrame

\* the stream ended: return file_path
DReturn ==
    /\ dl.pc = "body"
    /\ dl.received = BodyLen
    /\ dl' = [dl EXCEPT !.pc = "returned"]
    /\ UNCHANGED files
    /\ DownloadFrame

\* the transfer is interrupted (RemoteProtocolError, ReadTimeout, ...) after
\* the bytes received so far
DInterrupt ==
    /\ dl.pc = "body"
    /\ AttemptFailed(TRUE)
    /\ UNCHANGED files
    /\ DownloadFrame

\* all attempts failed: unlink the file this call created, and raise
DGiveUp ==
    /\ dl.pc = "attempt"
    /\ dl.attempt >= max_attempts(dl.resume_supported)
    /\ files' = [files EXCEPT ![dl.file_path] = NoFile]
    /\ dl' = [dl EXCEPT !.pc = "raised"]
    /\ DownloadFrame

NextDownload ==
    \/ \E url \in Urls, name \in Names, overwrite \in BOOLEAN, resume_supported \in BOOLEAN :
          DCall(url, name, overwrite, resume_supported)
    \/ DProbe
    \/ DName
    \/ DAttempt
    \/ DWrite
    \/ DReturn
    \/ DInterrupt
    \/ DGiveUp

SpecDownload == Init /\ [][NextDownload]_vars

\* the files that existed before the call are as they were
PreExistingUntouched == \A path \in Paths : dl.pre[path].exists => files[path] = dl.pre[path]

\* C18: on a server with byte-range support, a call that returns has written
\* exactly the body, and an interruption after any number of bytes is made up
\* for by a later attempt: the call fails only when every one of its attempts
\* was interrupted
C18_ResumeCorrect ==
    (dl.resume_supported /\ dl.file_path # NoPath) =>
        /\ dl.pc = "returned" => files[dl.file_path] = [exists |-> TRUE, bytes |-> Body(dl.url)]
        /\ dl.pc = "raised" => dl.interrupts = retries

\* C19: no body transfer starts beyond the ceiling of attempts, which is at
\* most retries; a call that used up its attempts raises after removing the
\* file it created, and without overwrite the files that existed before the
\* call are as they were
C19_BoundedAttemptsAndCleanup ==
    /\ dl.attempt <= retries
    /\ dl.pc = "body" => dl.attempt < max_attempts(dl.resume_supported)
    /\ (dl.pc = "raised" /\ dl.file_path # NoPath)
       => /\ dl.attempt = max_attempts(dl.resume_supported)
          /\ ~files[dl.file_path].exists
          /\ ~dl.overwrite => PreExistingUntouched

\* C19 witness: a call on a resumable server failed retries times, after
\* writing part of the body next to a file of the same name, and raised
C19_Witness ==
    /\ dl.pc = "raised"
    /\ dl.resume_supported /\ ~dl.overwrite
    /\ dl.attempt = retries
    /\ dl.interrupts = retries
    /\ dl.received > 0
    /\ dl.file_path[2] > 0
    /\ dl.pre[<<dl.filename, 0>>].exists
    /\ files[<<dl.filename, 0>>].exists

\* C20: without overwrite, a call leaves every file that existed before it
\* as it was: it writes to a path of its file name that did not exist, and
\* returns that path
C20_NoOverwriteOfExisting ==
    ~dl.overwrite =>
        /\ PreExistingUntouched
        /\ dl.file_path # NoPath
           => /\ ~dl.pre[dl.file_path].exists
              /\ dl.file_path[1] = dl.filename
        /\ dl.pc = "returned" => files[dl.file_path].exists

\* C20 witness: the file name existed, and the call returned a suffixed path
\* holding the body, the existing file still holding its own
C20_Witness ==
    /\ dl.pc = "returned" /\ ~dl.overwrite
    /\ dl.pre[<<dl.filename, 0>>].exists
    /\ dl.file_path[2] > 0
    /\ files[dl.file_path].bytes = Body(dl.url)
    /\ files[<<dl.filename, 0>>].bytes # Body(dl.url)
    /\ files[<<dl.filename, 0>>] = dl.pre[<<dl.filename, 0>>]

----------------------------------------------------------------------------
(* The pipeline, continued *)

\* C23: a completed job has a post: the job is linked to its Post before the
\* adapter's download is called, and completed is written only by the step
\* that follows the download
C23_CompletedHasPost ==
    /\ \A j \in Rows : jobs[j].status = "completed" => jobs[j].post_id # 0
    /\ \A i \in Entries : exec[i].pc = "download" => jobs[TheJob(i)].post_id # 0

\* C23 witness: a job is completed and linked to the one Post row
C23_Witness ==
    \E j \in Rows :
        /\ jobs[j].status = "completed"
        /\ jobs[j].post_id = 1
        /\ Len(posts) = 1
        /\ hist[j].ended = 1

\* C24: a submit whose share text holds no supported URL is rejected: it
\* creates no Job row and enqueues nothing, then or later
C24_UnsupportedInputRejected ==
    [][\A r \in 1..MaxSubmits :
        /\ \A share \in ShareTexts :
              (extract_url_from_share(share) = NULL /\ SubmitQuery(r, share))
              => /\ reqs'[r].pc = "rejected"
                 /\ jobs' = jobs
                 /\ rq' = rq
        /\ reqs[r].pc = "rejected" => reqs'[r] = reqs[r] /\ reqs[r].job = 0]_vars

\* C24 witness: both submits were rejected and there is no job and no queue
\* entry
C24_Witness ==
    /\ \A r \in 1..MaxSubmits : reqs[r].pc = "rejected"
    /\ jobs = <<>>
    /\ rq = <<>>

\* C25: a submit of a share URL whose jobs are all completed creates a new
\* pending job
C25_CompletedJobNotMatched ==
    [][\A r \in 1..MaxSubmits :
        (/\ reqs[r].pc = "new" /\ reqs'[r].pc \notin {"new", "rejected"}
         /\ \E j \in Rows : jobs[j].share_url = reqs'[r].url
         /\ \A j \in Rows : jobs[j].share_url = reqs'[r].url
                            => jobs[j].status = "completed")
        => reqs'[r].pc = "insert"]_vars

\* C26: a terminal status is never overwritten: once a job is completed or
\* failed, no step of another execution changes its status or its error
\* history
C26_TerminalNeverOverwritten ==
    [][\A j \in Rows :
        jobs[j].status \in {"completed", "failed"}
        => /\ jobs'[j].status = jobs[j].status
           /\ jobs'[j].error = jobs[j].error]_vars

\* C27: a Job row is put on the queue once
C27_EnqueuedOnce ==
    \A j \in Rows : Cardinality(EntriesOf(j)) <= 1

C29_CeilingForcesFailed ==
    [][\A i \in Entries :
        (/\ Leaves(i, "except")
         /\ Len(jobs'[TheJob(i)].error.attempts) > JOB_RETRIES)
        => jobs'[TheJob(i)].status = "failed"]_vars

\* C29 witness: a job failed on its record number JOB_RETRIES + 1, all of
\* them ValueError
C29_Witness ==
    \E j \in Rows :
        /\ jobs[j].status = "failed"
        /\ Len(jobs[j].error.attempts) = JOB_RETRIES + 1
        /\ \A k \in 1..(JOB_RETRIES + 1) : jobs[j].error.attempts[k] = "ValueError"

----------------------------------------------------------------------------
(* download_file without byte-range support *)

\* C30 as claimed: without byte-range support a failed body transfer is still
\* retried up to the ceiling: the call raises only after retries attempts
C30_NoResumeStillRetried ==
    (~dl.resume_supported /\ dl.file_path # NoPath /\ dl.pc = "raised")
    => dl.attempt = retries

\* C30 amended: without byte-range support the call makes one body-transfer
\* attempt, written from byte zero: a call that returns has written exactly
\* the body, and a failed transfer is not retried: the call removes the
\* partial file and raises
C30_NoResumeSingleAttempt ==
    (~dl.resume_supported /\ dl.file_path # NoPath) =>
        /\ dl.attempt <= 1
        /\ dl.pc \in {"body", "returned"}
           => /\ dl.attempt = 0
              /\ dl.resume_from = 0
              /\ files[dl.file_path] =
                   [exists |-> TRUE, bytes |-> SubSeq(Body(dl.url), 1, dl.received)]
        /\ dl.pc = "returned" => files[dl.file_path].bytes = Body(dl.url)
        /\ dl.pc = "raised" => dl.attempt = 1 /\ ~files[dl.file_path].exists

\* C30 witness: a transfer without byte-range support was interrupted after
\* some bytes, and the call raised after that one attempt, the partial file
\* removed
C30_Witness ==
    /\ ~dl.resume_supported
    /\ dl.pc = "raised"
    /\ dl.file_path # NoPath
    /\ dl.interrupts = 1
    /\ dl.received > 0
    /\ ~files[dl.file_path].exists

----------------------------------------------------------------------------
(* handler.download(db, post) inside an attempt of process_download_job:   *)
(* the skip check, then download_media_asset_from_url and                  *)
(* link_post_media_asset for each media item of the post                   *)

\* the media URLs the adapter extracted for a post
MediaUrls(key) == IF key = "p1" THEN <<"x1", "y">> ELSE <<"x2">>

\* filename = f'{filename_prefix}_{i}'
FileNameOf(item) == IF item = 1 THEN "n1" ELSE "n2"

\* post.has_completed_job(): a completed Job row is linked to the post
has_completed_job(post) ==
    \E j \in 1..Len(jobs) : jobs[j].post_id = post /\ jobs[j].status = "completed"

\* post.all_media_exists(): the file of every media item linked to the post
\* is on disk
all_media_exists(post) ==
    \A i \in 1..Len(post_media) :
        post_media[i].post_id = post
        => files[media_assets[post_media[i].media_asset_id].file_path].exists

\* the fast path of handler.download
SkipDownload(post) == has_completed_job(post) /\ all_media_exists(post)

\* two jobs were submitted for post "p1", and both are past the step that
\* links the job to its Post row
InitHandler ==
    /\ jobs = [j \in 1..2 |-> [share_url |-> "u1", status |-> "processing",
                               post_id |-> 1, error |-> EmptyError]]
    /\ posts = <<[key |-> "p1", tx |-> "committed", by |-> 0,
                  thumbnail_asset_id |-> 0],
                 [key |-> "p2", tx |-> "committed", by |-> 0,
                  thumbnail_asset_id |-> 0]>>
    /\ reqs = [r \in 1..MaxSubmits |-> [pc |-> "new", url |-> NULL, job |-> 0]]
    /\ rq = <<>>
    /\ exec = <<>>
    /\ hist = [j \in 1..2 |-> [ended |-> 0, transient |-> TRUE]]
    /\ creators = <<>>
    /\ media_assets = <<>>
    /\ post_media = <<>>
    /\ files = NoFiles
    /\ calls = [c \in Callers |-> IdleCall]
    /\ dl = IdleDownload
    /\ platforms = <<>>

\* what the steps of handler.download leave alone
HandlerFrame == UNCHANGED <<posts, reqs, rq, exec, hist, creators, platforms, dl>>

\* an attempt of job j reaches post_medias = handler.download(db, post); the
\* attempt runs only for a job the guard let through.  An attempt that
\* raises leaves the job at processing: the attempts of a behaviour are
\* fewer than JOB_RETRIES + 1
CallDownload(c, j) ==
    /\ MayCall(c)
    /\ jobs[j].status \notin GuardedStatuses
    /\ jobs[j].post_id # 0
    /\ calls' = [calls EXCEPT ![c] = [IdleCall EXCEPT !.op = "handler", !.pc = "hcheck",
                                         !.post = jobs[j].post_id, !.job = j,
                                         !.n = calls[c].n + 1]]
    /\ UNCHANGED <<jobs, media_assets, post_media, files>>
    /\ HandlerFrame

\* the download of media item number item begins
StartItem(c, item) ==
    calls' = [calls EXCEPT ![c].pc = "mdownload", ![c].item = item,
                           ![c].url = MediaUrls(posts[calls[c].post].key)[item],
                           ![c].path = <<FileNameOf(item), 0>>,
                           ![c].position = item - 1,
                           ![c].asset = 0, ![c].ret = 0]

\* handler.download returned; job.status = JobStatus.completed; db.commit()
DownloadReturns(c) ==
    /\ jobs' = [jobs EXCEPT ![calls[c].job].status = "completed"]
    /\ calls' = [calls EXCEPT ![c].pc = "done"]

\* if post.has_completed_job() and post.all_media_exists(): return
\* post.media_items; else the first media item
SkipCheck(c) ==
    /\ calls[c].pc = "hcheck"
    /\ IF SkipDownload(calls[c].post)
       THEN DownloadReturns(c)
       ELSE StartItem(c, 1) /\ UNCHANGED jobs
    /\ UNCHANGED <<media_assets, post_media, files>>
    /\ HandlerFrame

\* post_medias.append(post_media): the next media item, or return
NextItem(c) ==
    /\ calls[c].pc = "hnext"
    /\ IF calls[c].item < Len(MediaUrls(posts[calls[c].post].key))
       THEN StartItem(c, calls[c].item + 1) /\ UNCHANGED jobs
       ELSE DownloadReturns(c)
    /\ UNCHANGED <<media_assets, post_media, files>>
    /\ HandlerFrame

\* somebody outside the program deletes a media file
DeleteFile(path) ==
    /\ NoCall
    /\ files[path].exists
    /\ files' = [files EXCEPT ![path] = NoFile]
    /\ UNCHANGED <<jobs, media_assets, post_media, calls>>
    /\ HandlerFrame

\* the steps of an attempt under way
HandlerSteps ==
    \/ \E c \in Callers : SkipCheck(c)
    \/ \E c \in Callers : NextItem(c)
    \/ MediaSteps
    \/ \E path \in Paths : DeleteFile(path)

\* attempts of concurrent workers
NextHandler ==
    \/ \E c \in Callers, j \in 1..Len(jobs) : CallDownload(c, j)
    \/ HandlerSteps

\* attempts that run one after the other
NextHandlerSeq ==
    \/ \E c \in Callers, j \in 1..Len(jobs) : NoCall /\ CallDownload(c, j)
    \/ HandlerSteps

SpecHandler == InitHandler /\ [][NextHandler]_vars
SpecHandlerSeq == InitHandler /\ [][NextHandlerSeq]_vars

\* the post already has this content: a PostMedia row links it to a
\* MediaAsset row with the checksum of the bytes, whose file is on disk
AlreadyStored(post, bytes) ==
    \E i \in 1..Len(post_media) :
        /\ post_media[i].post_id = post
        /\ media_assets[post_media[i].media_asset_id].checksum_sha256 = hash_file(bytes)
        /\ files[media_assets[post_media[i].media_asset_id].file_path].exists

\* C21: an attempt does not download a media item that an earlier attempt
\* downloaded and linked, and it takes the fast path only when the post has
\* a completed job and all its files are on disk
C21_NoRedundantDownload ==
    [][\A c \in Callers :
        /\ (calls[c].op = "handler" /\ calls[c].pc = "mdownload"
            /\ calls'[c].pc = "aquery")
           => ~AlreadyStored(calls[c].post, Body(calls[c].url))
        /\ (calls[c].pc = "hcheck" /\ calls'[c].pc = "done")
           => has_completed_job(calls[c].post) /\ all_media_exists(calls[c].post)]_vars

\* the MediaAsset rows of a content, and the PostMedia rows that link a post
\* to them
AssetsOf(bytes) ==
    {a \in 1..Len(media_assets) : media_assets[a].checksum_sha256 = hash_file(bytes)}
LinksTo(post, bytes) ==
    {i \in 1..Len(post_media) :
        post_media[i].post_id = post /\ post_media[i].media_asset_id \in AssetsOf(bytes)}

\* C22: whatever executions ran for a post, its rows are those one
\* successful execution leaves: one Post row, and for each of its media one
\* MediaAsset row and one PostMedia row; never more, and exactly these once
\* a job of the post is completed
C22_StoredExactlyOnce ==
    /\ OneRowPerKey(posts)
    /\ \A post \in 1..Len(posts) :
         \A k \in 1..Len(MediaUrls(posts[post].key)) :
            LET bytes == Body(MediaUrls(posts[post].key)[k]) IN
              /\ Cardinality(AssetsOf(bytes)) <= 1
              /\ Cardinality(LinksTo(post, bytes)) <= 1
              /\ has_completed_job(post)
                 => /\ Cardinality(AssetsOf(bytes)) = 1
                    /\ Cardinality(LinksTo(post, bytes)) = 1

----------------------------------------------------------------------------
(* get_or_create_media_asset and link_post_media_asset called on their own, *)
(* one call after the other, next to the media calls of the adapters        *)

\* the positions a caller passes
Positions == {0, 1}

\* a caller registers the file at path: get_or_create_media_asset(db, info)
CallAsset(c, path) ==
    /\ MayCall(c)
    /\ calls' = [calls EXCEPT ![c] = [IdleCall EXCEPT !.op = "asset", !.pc = "aquery",
                                         !.path = path, !.n = calls[c].n + 1]]
    /\ UNCHANGED <<media_assets, post_media, files>>
    /\ MediaFrame

\* a caller links a MediaAsset row to a Post row:
\* link_post_media_asset(db, post, media_asset, position)
CallLink(c, post, asset, position) ==
    /\ MayCall(c)
    /\ calls' = [calls EXCEPT ![c] = [IdleCall EXCEPT !.op = "link", !.pc = "lquery",
                                         !.post = post, !.asset = asset,
                                         !.position = position, !.n = calls[c].n + 1]]
    /\ UNCHANGED <<media_assets, post_media, files>>
    /\ MediaFrame

\* the calls of one caller, each made after the last one returned
NextRegistry ==
    \/ \E post \in 1..Len(posts), url \in Urls, name \in Names :
          CallMedia(1, post, url, name)
    \/ \E path \in Paths : CallAsset(1, path)
    \/ \E post \in 1..Len(posts), asset \in 1..Len(media_assets),
          position \in Positions : CallLink(1, post, asset, position)
    \/ MediaSteps
    \/ \E path \in Paths : DeleteFile(path)

SpecRegistry == InitMedia /\ [][NextRegistry]_vars

\* C33: get_or_create_media_asset raises FileNotFoundError and inserts
\* nothing when the file does not exist; else it returns the row whose
\* file_path is the path of the file if there is one; else the row whose
\* checksum and size are those of the file; else it inserts one row with the
\* digest, the size and the path of the file
C33_AssetLookupOrder ==
    [][\A c \in Callers :
        LET path == calls[c].path
            bytes == files[path].bytes
            same_path == {i \in 1..Len(media_assets) : media_assets[i].file_path = path}
            same_content == {i \in 1..Len(media_assets) :
                                /\ media_assets[i].checksum_sha256 = hash_file(bytes)
                                /\ media_assets[i].file_size = Len(bytes)} IN
          /\ (calls[c].pc = "aquery" /\ calls'[c].pc # "aquery")
             => /\ media_assets' = media_assets
                /\ IF ~files[path].exists THEN calls'[c].pc = "raised"
                   ELSE IF same_path # {}
                        THEN calls'[c].pc \in {"done", "lquery"}
                             /\ calls'[c].asset \in same_path
                   ELSE IF same_content # {}
                        THEN calls'[c].pc \in {"done", "lquery"}
                             /\ calls'[c].asset \in same_content
                   ELSE calls'[c].pc = "ainsert"
          /\ (calls[c].pc = "ainsert" /\ calls'[c].pc # "ainsert")
             => /\ media_assets' = Append(media_assets,
                                          [file_path |-> path,
                                           checksum_sha256 |-> hash_file(bytes),
                                           file_size |-> Len(bytes)])
                /\ calls'[c].asset = Len(media_assets) + 1]_vars

\* C33 witness: a call returned the row with the path of its file although
\* the file now holds other bytes than the row's checksum: the path came
\* first
C33_Witness ==
    \E c \in Callers :
        /\ calls[c].op \in {"asset", "media"}
        /\ calls[c].pc \in {"done", "lquery"}
        /\ calls[c].asset # 0
        /\ files[calls[c].path].exists
        /\ media_assets[calls[c].asset].file_path = calls[c].path
        /\ media_assets[calls[c].asset].checksum_sha256
              # hash_file(files[calls[c].path].bytes)

----------------------------------------------------------------------------
(* download_file against a server that advertises byte ranges and answers   *)
(* a Range request with 200                                                 *)

\* a call to such a server
DCallRangeIgnored(url, name) ==
    /\ dl.pc \in {"idle", "returned", "raised"}
    /\ dl.n < MaxDownloads
    /\ dl' = [Called(url, name, FALSE, TRUE) EXCEPT !.range_ignored = TRUE]
    /\ UNCHANGED files
    /\ DownloadFrame

\* elif response.status_code == 200: the second request, without the Range
\* header, and f.write(chunk) for its first chunk.  The file is not opened
\* in this branch: f is the file object of the attempt that left the partial
\* file, closed since, and f.write raises ValueError, which 'except
\* Exception' turns into the next attempt.  The partial file is as it was
DRestart ==
    /\ dl.pc = "attempt"
    /\ dl.attempt < max_attempts(dl.resume_supported)
    /\ ResumeFrom > 0
    /\ StatusOf(ResumeFrom) = 200
    /\ AttemptFailed(FALSE)
    /\ UNCHANGED files
    /\ DownloadFrame

NextDownloadIgnored ==
    \/ \E url \in Urls, name \in Names : DCallRangeIgnored(url, name)
    \/ DProbe
    \/ DName
    \/ DAttempt
    \/ DRestart
    \/ DWrite
    \/ DReturn
    \/ DInterrupt
    \/ DGiveUp

SpecDownloadIgnored == Init /\ [][NextDownloadIgnored]_vars

\* C37: when an attempt resumes a non-empty partial file and the server
\* answers the Range request with 200, the attempt starts the transfer again
\* from zero into the emptied file, and a call that returns has written
\* exactly the full body
C37_RestartOn200 ==
    [][/\ (/\ dl.pc = "attempt"
           /\ dl.range_ignored
           /\ dl.attempt < max_attempts(dl.resume_supported)
           /\ ResumeFrom > 0
           /\ dl' # dl
           /\ dl'.interrupts = dl.interrupts)
          => /\ dl'.pc = "body"
             /\ dl'.received = 0
             /\ files'[dl.file_path] = [exists |-> TRUE, bytes |-> <<>>]
       /\ (dl.pc # "returned" /\ dl'.pc = "returned")
          => files'[dl'.file_path].bytes = Body(dl'.url)]_vars

----------------------------------------------------------------------------
(* The two retry layers: download_file inside an attempt of               *)
(* process_download_job                                                     *)

\* a job past the step that links it to its post
InitJobDownload ==
    /\ jobs = <<[share_url |-> "u1", status |-> "processing", post_id |-> 1,
                 error |-> EmptyError]>>
    /\ posts = <<[key |-> "p1", tx |-> "committed", by |-> 0,
                  thumbnail_asset_id |-> 0]>>
    /\ reqs = [r \in 1..MaxSubmits |-> [pc |-> "new", url |-> NULL, job |-> 0]]
    /\ rq = <<>>
    /\ exec = <<>>
    /\ hist = <<[ended |-> 0, transient |-> TRUE]>>
    /\ creators = <<>>
    /\ media_assets = <<>>
    /\ post_media = <<>>
    /\ files = NoFiles
    /\ calls = [c \in Callers |-> IdleCall]
    /\ dl = IdleDownload
    /\ platforms = <<>>

\* what the steps of the attempt leave alone
JobDownloadFrame ==
    UNCHANGED <<posts, reqs, rq, exec, creators, platforms, media_assets, post_media>>

\* an attempt of the job, the first or one the queue retries, reaches
\* download_file for the media of the post
AttemptDownload(resume_supported) ==
    /\ calls[1].pc \in {"idle", "raised"}
    /\ jobs[1].status \notin GuardedStatuses
    /\ dl.n < MaxDownloads
    /\ calls' = [calls EXCEPT ![1] = [IdleCall EXCEPT !.op = "job", !.pc = "jdownload",
                                         !.job = 1, !.post = jobs[1].post_id,
                                         !.n = calls[1].n + 1]]
    /\ dl' = Called(MediaUrls("p1")[1], FileNameOf(1), FALSE, resume_supported)
    /\ UNCHANGED <<jobs, hist, files>>
    /\ JobDownloadFrame

\* download_file returned: job.status = JobStatus.completed; db.commit()
AttemptCompleted ==
    /\ calls[1].pc = "jdownload"
    /\ dl.pc = "returned"
    /\ jobs' = [jobs EXCEPT ![1].status = "completed"]
    /\ calls' = [calls EXCEPT ![1].pc = "done"]
    /\ Ended(1, FALSE)
    /\ UNCHANGED <<dl, files>>
    /\ JobDownloadFrame

\* download_file raised: except Exception: the error is recorded, the job
\* fails when the records exceed JOB_RETRIES, and the exception is raised to
\* the queue
AttemptRaised ==
    /\ calls[1].pc = "jdownload"
    /\ dl.pc = "raised"
    /\ LET error == WithAttempt(jobs[1].error, "HTTPError") IN
         jobs' = [jobs EXCEPT ![1].error = error,
                              ![1].status = IF RetriesExhausted(Len(error.attempts))
                                            THEN "failed" ELSE jobs[1].status]
    /\ calls' = [calls EXCEPT ![1].pc = "raised"]
    /\ Ended(1, TRUE)
    /\ UNCHANGED <<dl, files>>
    /\ JobDownloadFrame

\* the steps of download_file while the attempt waits for it
InDownload ==
    /\ calls[1].pc = "jdownload"
    /\ \/ DProbe
       \/ DName
       \/ DAttempt
       \/ DWrite
       \/ DReturn
       \/ DInterrupt
       \/ DGiveUp

NextJobDownload ==
    \/ \E resume_supported \in BOOLEAN : AttemptDownload(resume_supported)
    \/ AttemptCompleted
    \/ AttemptRaised
    \/ InDownload

SpecJobDownload == InitJobDownload /\ [][NextJobDownload]_vars

----------------------------------------------------------------------------
(* The attachments of get_or_create_creator and create_post *)

\* C32: the download of the profile picture / thumbnail starts only after
\* the Creator / Post row the call works on is committed: no download runs
\* inside a transaction that holds the uncommitted row
C32_DownloadAfterCommit ==
    [][\A c \in Callers :
        /\ (calls[c].pc = "cpic" /\ calls'[c].pc = "ccommit" /\ calls'[c].pic # "none")
           => creators[calls[c].creator].tx = "committed"
        /\ (calls[c].pc = "pthumb" /\ calls'[c].pc = "pcommit" /\ calls'[c].thumb # "none")
           => posts[calls[c].post].tx = "committed"]_vars

----------------------------------------------------------------------------
(* get_or_create_creator on sessions that keep uncommitted rows: callers   *)
(* that pass commit=False                                                   *)

\* a session may make one call more than a worker
MaySessionCall(c) ==
    /\ calls[c].pc \in {"idle", "done", "raised"}
    /\ CallsMade(NumCallers) < MaxCalls + 1

\* get_or_create_creator(db, platform, post_info, commit=commit)
CallCreatorWith(c, post_info, commit) ==
    /\ MaySessionCall(c)
    /\ calls' = [calls EXCEPT ![c] = [IdleCall EXCEPT !.op = "creator", !.pc = "cquery",
                                         !.post_info = post_info, !.commit = commit,
                                         !.n = calls[c].n + 1]]
    /\ UNCHANGED <<creators, posts>>
    /\ UpsertFrame

NextSession ==
    \/ \E c \in Callers, post_info \in PostInfos, commit \in BOOLEAN :
          CallCreatorWith(c, post_info, commit)
    \/ \E c \in Callers : CreatorQuery(c)
    \/ \E c \in Callers : CreatorFlush(c)
    \/ \E c \in Callers : CreatorRequery(c)
    \/ \E c \in Callers : CreatorPic(c)
    \/ \E c \in Callers : CreatorCommit(c)

SpecSession == Init /\ [][NextSession]_vars

\* the rows of a table that session c has inserted and not yet committed
Uncommitted(rows, c) == {i \in 1..Len(rows) : rows[i].tx = "pending" /\ rows[i].by = c}

\* C31: the handling of the IntegrityError rolls back the failed INSERT
\* only: every row the session inserted earlier and has not committed is
\* still there, uncommitted, after it
C31_OnlyFailedInsertRolledBack ==
    [][\A c \in Callers :
        (calls[c].pc \in {"crequery", "prequery"} /\ calls'[c].pc # calls[c].pc)
        => /\ \A i \in Uncommitted(creators, c) : creators'[i].tx = "pending"
           /\ \A i \in Uncommitted(posts, c) : posts'[i].tx = "pending"]_vars

----------------------------------------------------------------------------
(* BaseHandler.ensure_platform_exists, called by the attempts of worker     *)
(* processes whose handler class has no cached PLATFORM                     *)

\* PLATFORM_NAME of the handler classes
PlatformNames == {"xhs", "douyin"}

\* Platform.name: unique=True
uq_platform_name == TRUE

\* what the steps leave alone
PlatformFrame ==
    UNCHANGED <<jobs, posts, reqs, rq, exec, hist, creators, media_assets, post_media,
                files, dl>>

\* if handler.PLATFORM is None: handler.__class__.ensure_platform_exists(db)
CallEnsure(c, name) ==
    /\ MayCall(c)
    /\ calls' = [calls EXCEPT ![c] = [IdleCall EXCEPT !.op = "platform", !.pc = "equery",
                                         !.name = name, !.n = calls[c].n + 1]]
    /\ UNCHANGED platforms
    /\ PlatformFrame

\* platform = db.query(Platform).filter_by(name=cls.PLATFORM_NAME).first();
\* a row that is found is cached in cls.PLATFORM and returned
EnsureQuery(c) ==
    /\ calls[c].pc = "equery"
    /\ LET found == Matching(platforms, c, calls[c].name) IN
         IF found # {}
         THEN \E i \in found : calls' = [calls EXCEPT ![c].pc = "ensured", ![c].ret = i]
         ELSE calls' = [calls EXCEPT ![c].pc = "eflush"]
    /\ UNCHANGED platforms
    /\ PlatformFrame

\* db.add(platform); db.flush(): the INSERT waits for a session that has
\* inserted the name and not committed.  Nothing catches its IntegrityError:
\* it leaves ensure_platform_exists and reaches 'except Exception' of
\* process_download_job, which rolls the session back and raises
EnsureFlush(c) ==
    /\ calls[c].pc = "eflush"
    /\ ~(uq_platform_name /\ Blocked(platforms, c, calls[c].name))
    /\ IF Conflict(uq_platform_name, platforms, c, calls[c].name)
       THEN /\ calls' = [calls EXCEPT ![c].pc = "raised", ![c].lost = TRUE]
            /\ platforms' = RolledBack(platforms, c)
       ELSE /\ platforms' = Append(platforms, [key |-> calls[c].name, tx |-> "pending",
                                               by |-> c])
            /\ calls' = [calls EXCEPT ![c].pc = "ensured", ![c].ret = Len(platforms) + 1]
    /\ PlatformFrame

\* the attempt goes on with the Platform row: it reaches its next
\* db.commit(), or handler.load / extract_info raise and 'except Exception'
\* rolls the session back
AttemptGoesOn(c) ==
    /\ calls[c].pc = "ensured"
    /\ \/ /\ platforms' = Committed(platforms, c)
          /\ calls' = [calls EXCEPT ![c].pc = "done"]
       \/ /\ platforms' = RolledBack(platforms, c)
          /\ calls' = [calls EXCEPT ![c].pc = "raised"]
    /\ PlatformFrame

NextPlatform ==
    \/ \E c \in Callers, name \in PlatformNames : CallEnsure(c, name)
    \/ \E c \in Callers : EnsureQuery(c)
    \/ \E c \in Callers : EnsureFlush(c)
    \/ \E c \in Callers : AttemptGoesOn(c)

SpecPlatform == Init /\ [][NextPlatform]_vars

\* C35: there is at most one Platform row per name, every worker that calls
\* ensure_platform_exists obtains the row of its name, and none of them
\* fails on the INSERT of a name another worker has just inserted
C35_OnePlatformRowPerName ==
    /\ OneRowPerKey(platforms)
    /\ \A c \in Callers :
         calls[c].op = "platform"
         => /\ ~(calls[c].pc = "raised" /\ calls[c].lost)
            /\ calls[c].pc \in {"ensured", "done"}
               => /\ calls[c].ret \in Live(platforms)
                  /\ platforms[calls[c].ret].key = calls[c].name

====
